---- MODULE Spec2Model ----
(***************************************************************************)
(* Car-rental backend (src/index.js): the session guard, the listing       *)
(* routes and the booking transition, as a state machine over the two      *)
(* MongoDB collections "cars" and "bookings".                              *)
(*                                                                         *)
(* Granularity.  Node runs a handler without interruption up to its next   *)
(* `await`; the only shared state is the two collections, and each store   *)
(* call is atomic on the server.  A request is one slot's walk through:    *)
(*   Receive      the request arrives (route and cookie);                  *)
(*   <Route>Enter verifyToken and the handler's code before its first      *)
(*                store call (it reads no shared state);                   *)
(*   one action per store call, together with the handler code that        *)
(*                follows it up to the next store call or the response.    *)
(* POST /cars, GET /my-listings and GET /my-bookings make one store call,  *)
(* which is part of their entering action.  A request body that only a     *)
(* later step reads (PATCH's) is drawn at that step.  createdAt and        *)
(* bookingDate are not modelled; ObjectIds are the values of two counters  *)
(* and are never reused.  The public routes (/auth/jwt, /auth/logout,      *)
(* GET /cars, GET /cars/:id, GET /) write nothing and are left out.        *)
(***************************************************************************)
EXTENDS Integers, FiniteSets, TLC

\* ------------------------------------------------------------------ bounds
MaxCars == 1
MaxBookings == 2
\* requests taken in over a run
MaxRequests == 4

Procs == {1, 2}

Users == {"a@x.com", "b@x.com", "c@x.com"}
NoToken == "none"
BadToken == "invalid"
Tokens == {NoToken, BadToken} \cup Users

CarNames == {"Civic"}
PriceInputs == {"20"}
StatusInputs == {"Available", "Booked", "Maintenance"}

Routes == {"POST /cars", "GET /my-listings", "PATCH /cars/:id", "DELETE /cars/:id",
           "POST /book", "GET /my-bookings", "DELETE /booking/:id"}

\* ids a request can name: 0 is a string that is no ObjectId, the others are
\* well-formed ObjectIds (allocated or not)
CarIdInputs == 0..MaxCars
BookingIdInputs == 0..MaxBookings

VARIABLES cars, carSeq, bookings, bookingSeq, pc, req, loc, resp, arrivals

vars == <<cars, carSeq, bookings, bookingSeq, pc, req, loc, resp, arrivals>>

\* ------------------------------------------------------------- pure helpers

\* a request body: any subset of the fields, each with a value of its domain
FieldValues == [providerEmail |-> Users, carName |-> CarNames,
                rentPrice |-> PriceInputs, status |-> StatusInputs]

Bodies == UNION { { b \in [D -> Users \cup CarNames \cup PriceInputs \cup StatusInputs] :
                      \A k \in D : b[k] \in FieldValues[k] } :
                  D \in SUBSET (DOMAIN FieldValues) }

\* the bodies POST /cars is given: the listing's owner is drawn from Providers
Providers == {"a@x.com"}
NewCarBodies == {b \in Bodies : "providerEmail" \in DOMAIN b => b.providerEmail \in Providers}

Has(b, k) == k \in DOMAIN b

ParseFloat(s) == CASE s = "20" -> 20

\* { ...doc, ...set }: object spread, and MongoDB's $set on a document
SetFields(doc, set) ==
    [k \in DOMAIN doc \cup DOMAIN set |-> IF k \in DOMAIN set THEN set[k] ELSE doc[k]]

DeleteKeys(b, ks) == [k \in DOMAIN b \ ks |-> b[k]]

ObjectIdIsValid(id) == id # 0

Remove(f, id) == [k \in DOMAIN f \ {id} |-> f[k]]

\* variant: the count of matched documents taken for modifiedCount
ModifiedCountAsMatched(coll, id, set) == IF id \in DOMAIN coll THEN 1 ELSE 0

\* updateOne's modifiedCount: 1 when a document matched and $set changed it

ModifiedCount(coll, id, set) ==
    IF id \in DOMAIN coll /\ SetFields(coll[id], set) # coll[id] THEN 1 ELSE 0

UpdateOne(coll, id, set) ==
    IF id \in DOMAIN coll THEN [coll EXCEPT ![id] = SetFields(@, set)] ELSE coll

\* variant: the guard without its `if (!token)` branch
verifyTokenNoAbsentCheck(token) ==
    IF token = BadToken
      THEN [next |-> FALSE, code |-> 401, msg |-> "Unauthorized access: Invalid token"]
      ELSE [next |-> TRUE, email |-> token]

\* the session guard: what it does with the cookie's token (a verified token
\* is modelled by the email it carries)
verifyToken(token) ==
    IF token = NoToken
      THEN [next |-> FALSE, code |-> 401, msg |-> "Unauthorized access: No token provided"]
      ELSE IF token = BadToken
        THEN [next |-> FALSE, code |-> 401, msg |-> "Unauthorized access: Invalid token"]
        ELSE [next |-> TRUE, email |-> token]

\* ------------------------------------------------------------------- state

NoReq == [route |-> "none", token |-> NoToken, id |-> 0]
NoResp == [code |-> 0, msg |-> "", bookingId |-> 0]

Init ==
    /\ cars = <<>>
    /\ carSeq = 0
    /\ bookings = <<>>
    /\ bookingSeq = 0
    /\ pc = [p \in Procs |-> "idle"]
    /\ req = [p \in Procs |-> NoReq]
    /\ loc = [p \in Procs |-> 0]
    /\ resp = [p \in Procs |-> NoResp]
    /\ arrivals = 0

\* the response ends the request: its locals are gone
Send(p, body) ==
    /\ pc' = [pc EXCEPT ![p] = "idle"]
    /\ resp' = [resp EXCEPT ![p] = body]
    /\ req' = [req EXCEPT ![p] = NoReq]
    /\ loc' = [loc EXCEPT ![p] = 0]
    /\ arrivals' = arrivals

Respond(p, code, msg) == Send(p, [code |-> code, msg |-> msg, bookingId |-> 0])

Goto(p, label, id, local) ==
    /\ pc' = [pc EXCEPT ![p] = label]
    /\ req' = [req EXCEPT ![p].id = id]
    /\ loc' = [loc EXCEPT ![p] = local]
    /\ UNCHANGED <<resp, arrivals>>

StoresUnchanged == UNCHANGED <<cars, carSeq, bookings, bookingSeq>>

\* requests in flight that will still allocate an id (the model's bound on
\* the two id counters is enforced where the request is taken in)
Pending(route, labels) ==
    Cardinality({q \in Procs : req[q].route = route /\ pc[q] \in labels})

\* a request arrives on a free slot: its route and its cookie
Arrive(p, routes) ==
    /\ pc[p] = "idle"
    /\ arrivals < MaxRequests
    /\ arrivals' = arrivals + 1
    /\ \E route \in routes, token \in Tokens :
         /\ route = "POST /cars" =>
              carSeq + Pending(route, {"recv"}) < MaxCars
         /\ route = "POST /book" =>
              bookingSeq + Pending(route, {"recv", "book_find", "book_insert"}) < MaxBookings
         /\ pc' = [pc EXCEPT ![p] = "recv"]
         /\ req' = [req EXCEPT ![p] = [route |-> route, token |-> token, id |-> 0]]
         /\ resp' = [resp EXCEPT ![p] = NoResp]
    /\ UNCHANGED <<cars, carSeq, bookings, bookingSeq, loc>>

Receive(p) == Arrive(p, Routes)

\* verifyToken, then the handler's code before its first store call
Enter(p, label, id) ==
    /\ pc' = [pc EXCEPT ![p] = label]
    /\ req' = [req EXCEPT ![p].id = id]
    /\ UNCHANGED <<resp, loc, arrivals>>
    /\ StoresUnchanged

Reject(p, code, msg) == Respond(p, code, msg) /\ StoresUnchanged

\* `handler` is the action the route's handler takes once next() is called
Guarded(p, route, handler) ==
    /\ pc[p] = "recv"
    /\ req[p].route = route
    /\ LET v == verifyToken(req[p].token) IN
         IF ~v.next
           THEN Respond(p, v.code, v.msg) /\ StoresUnchanged
           ELSE handler

\* ------------------------------------------------------------ POST /cars
PostCarsHandler(p) ==
    \E newCar \in NewCarBodies :
      IF ~Has(newCar, "providerEmail") \/ ~Has(newCar, "carName")
           \/ ~Has(newCar, "rentPrice")
        THEN Reject(p, 400, "Missing required fields.")
        ELSE LET carToInsert == SetFields(newCar,
                                  [rentPrice |-> ParseFloat(newCar.rentPrice),
                                   status |-> "Available"])
             IN /\ carSeq' = carSeq + 1
                /\ cars' = [k \in DOMAIN cars \cup {carSeq + 1} |->
                              IF k = carSeq + 1 THEN carToInsert ELSE cars[k]]
                /\ Respond(p, 200, "inserted")
                /\ UNCHANGED <<bookings, bookingSeq>>

PostCars(p) == Guarded(p, "POST /cars", PostCarsHandler(p))

\* ------------------------------------------------------ GET /my-listings
MyListingsHandler(p) ==
    Reject(p, 200, "listings")

MyListings(p) == Guarded(p, "GET /my-listings", MyListingsHandler(p))

\* ------------------------------------------------------- PATCH /cars/:id
PatchCarsEnterHandler(p) ==
    \E id \in CarIdInputs :
      IF ~ObjectIdIsValid(id)
        THEN Reject(p, 400, "Invalid Car ID format.")
        ELSE Enter(p, "patch_find", id)

PatchCarsEnter(p) == Guarded(p, "PATCH /cars/:id", PatchCarsEnterHandler(p))

\* variant: the lookup without the providerEmail comparison
PatchCarsFindNoOwnerCheck(p) ==
    /\ pc[p] = "patch_find"
    /\ IF req[p].id \notin DOMAIN cars
         THEN Respond(p, 404, "Car not found.")
         ELSE Goto(p, "patch_update", req[p].id, 0)
    /\ StoresUnchanged

PatchCarsFind(p) ==
    /\ pc[p] = "patch_find"
    /\ IF req[p].id \notin DOMAIN cars
         THEN Respond(p, 404, "Car not found.")
         ELSE IF cars[req[p].id].providerEmail # req[p].token
           THEN Respond(p, 403, "Forbidden: You do not own this listing.")
           ELSE Goto(p, "patch_update", req[p].id, 0)
    /\ StoresUnchanged

\* the $set document built from the request body
UpdateDoc(updatedCarData) ==
    LET stripped == DeleteKeys(updatedCarData, {"providerEmail", "providerName", "_id"})
    IN SetFields(stripped,
                 [rentPrice |-> IF Has(stripped, "rentPrice")
                                  THEN ParseFloat(stripped.rentPrice) ELSE 0])

\* (the body arrived with the request; this step is the first to read it)
PatchCarsUpdate(p) ==
    /\ pc[p] = "patch_update"
    /\ \E updatedCarData \in Bodies :
         cars' = UpdateOne(cars, req[p].id, UpdateDoc(updatedCarData))
    /\ Respond(p, 200, "updated")
    /\ UNCHANGED <<carSeq, bookings, bookingSeq>>

\* ------------------------------------------------------ DELETE /cars/:id
DeleteCarsEnterHandler(p) ==
    \E id \in CarIdInputs :
      IF ~ObjectIdIsValid(id)
        THEN Reject(p, 400, "Invalid Car ID format.")
        ELSE Enter(p, "delcar_find", id)

DeleteCarsEnter(p) == Guarded(p, "DELETE /cars/:id", DeleteCarsEnterHandler(p))

DeleteCarsFind(p) ==
    /\ pc[p] = "delcar_find"
    /\ IF req[p].id \notin DOMAIN cars
         THEN Respond(p, 404, "Car not found.")
         ELSE IF cars[req[p].id].providerEmail # req[p].token
           THEN Respond(p, 403, "Forbidden: You do not own this listing.")
           ELSE Goto(p, "delcar_delete", req[p].id, 0)
    /\ StoresUnchanged

DeleteCarsDelete(p) ==
    /\ pc[p] = "delcar_delete"
    /\ cars' = Remove(cars, req[p].id)
    /\ Respond(p, 200, "deleted")
    /\ UNCHANGED <<carSeq, bookings, bookingSeq>>

\* -------------------------------------------------------------- POST /book
\* a booking document: the body's fields with carId and bookingDate set
BookingToInsert(carId, userEmail) == [carId |-> carId, userEmail |-> userEmail]

BookEnterHandler(p) ==
    \E carId \in CarIdInputs, reqUserEmail \in Users :
      IF req[p].token # reqUserEmail
        THEN Reject(p, 403, "Forbidden: User email mismatch.")
        ELSE IF ~ObjectIdIsValid(carId)
          THEN Reject(p, 500, "An unexpected error occurred during booking.")
          ELSE Enter(p, "book_find", carId)

BookEnter(p) == Guarded(p, "POST /book", BookEnterHandler(p))

BookFind(p) ==
    /\ pc[p] = "book_find"
    /\ LET carId == req[p].id
           userEmail == req[p].token
       IN IF carId \notin DOMAIN cars
            THEN Respond(p, 404, "Booking failed: Car not found.")
            ELSE IF cars[carId].providerEmail = userEmail
              THEN Respond(p, 400, "Booking failed: You cannot book your own listing.")
              ELSE IF cars[carId].status # "Available"
                THEN Respond(p, 400, "Booking failed: Car is already booked or unavailable.")
                ELSE Goto(p, "book_insert", carId, 0)
    /\ StoresUnchanged

\* variant: an insert that is refused when a booking already references the car
BookInsertIfUnreferenced(p) ==
    /\ pc[p] = "book_insert"
    /\ IF \E b \in DOMAIN bookings : bookings[b].carId = req[p].id
         THEN /\ Respond(p, 400, "Booking failed: Car is already booked or unavailable.")
              /\ StoresUnchanged
         ELSE /\ bookingSeq' = bookingSeq + 1
              /\ bookings' = [k \in DOMAIN bookings \cup {bookingSeq + 1} |->
                                IF k = bookingSeq + 1
                                  THEN BookingToInsert(req[p].id, req[p].token)
                                  ELSE bookings[k]]
              /\ Goto(p, "book_update", req[p].id, bookingSeq + 1)
              /\ UNCHANGED <<cars, carSeq>>

BookInsert(p) ==
    /\ pc[p] = "book_insert"
    /\ bookingSeq' = bookingSeq + 1
    /\ bookings' = [k \in DOMAIN bookings \cup {bookingSeq + 1} |->
                      IF k = bookingSeq + 1
                        THEN BookingToInsert(req[p].id, req[p].token)
                        ELSE bookings[k]]
    /\ Goto(p, "book_update", req[p].id, bookingSeq + 1)
    /\ UNCHANGED <<cars, carSeq>>

BookUpdate(p) ==
    /\ pc[p] = "book_update"
    /\ cars' = UpdateOne(cars, req[p].id, [status |-> "Booked"])
    /\ IF ModifiedCount(cars, req[p].id, [status |-> "Booked"]) = 0
         THEN Goto(p, "book_compensate", req[p].id, loc[p])
         ELSE Send(p, [code |-> 200, msg |-> "booked", bookingId |-> loc[p]])
    /\ UNCHANGED <<carSeq, bookings, bookingSeq>>

BookCompensate(p) ==
    /\ pc[p] = "book_compensate"
    /\ bookings' = Remove(bookings, loc[p])
    /\ Respond(p, 500, "Booking failed: Could not update car status.")
    /\ UNCHANGED <<cars, carSeq, bookingSeq>>

\* ------------------------------------------------------- GET /my-bookings
MyBookingsHandler(p) ==
    Reject(p, 200, "bookings")

MyBookings(p) == Guarded(p, "GET /my-bookings", MyBookingsHandler(p))

\* ---------------------------------------------------- DELETE /booking/:id
CancelEnterHandler(p) ==
    \E bookingId \in BookingIdInputs :
      IF ~ObjectIdIsValid(bookingId)
        THEN Reject(p, 400, "Invalid Booking ID format or server error.")
        ELSE Enter(p, "cancel_find", bookingId)

CancelEnter(p) == Guarded(p, "DELETE /booking/:id", CancelEnterHandler(p))

\* bookingQuery = { _id, userEmail }
BookingMatches(p) ==
    /\ req[p].id \in DOMAIN bookings
    /\ bookings[req[p].id].userEmail = req[p].token

CancelFind(p) ==
    /\ pc[p] = "cancel_find"
    /\ IF ~BookingMatches(p)
         THEN Respond(p, 404, "Booking not found or you don't have permission to cancel it.")
         ELSE Goto(p, "cancel_delete", req[p].id, bookings[req[p].id].carId)
    /\ StoresUnchanged

CancelDelete(p) ==
    /\ pc[p] = "cancel_delete"
    /\ IF ~BookingMatches(p)
         THEN /\ Respond(p, 500, "Cancellation failed on database.")
              /\ bookings' = bookings
         ELSE /\ bookings' = Remove(bookings, req[p].id)
              /\ Goto(p, "cancel_update", req[p].id, loc[p])
    /\ UNCHANGED <<cars, carSeq, bookingSeq>>

\* variant: a cancellation that answers without the status write
CancelUpdateNoStatusWrite(p) ==
    /\ pc[p] = "cancel_update"
    /\ Respond(p, 200, "Booking cancelled and car status updated to Available.")
    /\ StoresUnchanged

CancelUpdate(p) ==
    /\ pc[p] = "cancel_update"
    /\ cars' = UpdateOne(cars, loc[p], [status |-> "Available"])
    /\ Respond(p, 200, "Booking cancelled and car status updated to Available.")
    /\ UNCHANGED <<carSeq, bookings, bookingSeq>>

\* ------------------------------------------------------- the specification
Next ==
    \E p \in Procs :
      \/ Receive(p)
      \/ PostCars(p)
      \/ MyListings(p)
      \/ PatchCarsEnter(p) \/ PatchCarsFind(p) \/ PatchCarsUpdate(p)
      \/ DeleteCarsEnter(p) \/ DeleteCarsFind(p) \/ DeleteCarsDelete(p)
      \/ BookEnter(p) \/ BookFind(p) \/ BookInsert(p) \/ BookUpdate(p) \/ BookCompensate(p)
      \/ MyBookings(p)
      \/ CancelEnter(p) \/ CancelFind(p) \/ CancelDelete(p) \/ CancelUpdate(p)

Spec == Init /\ [][Next]_vars

\* ------------------------------------------- booking requests on their own
\* Only listings are created and booked: no update, delete or cancellation
\* touches a listing or its bookings.
ReceiveBooking(p) == Arrive(p, {"POST /cars", "POST /book"})

NextRace ==
    \E p \in Procs :
      \/ ReceiveBooking(p)
      \/ PostCars(p)
      \/ BookEnter(p) \/ BookFind(p) \/ BookInsert(p) \/ BookUpdate(p) \/ BookCompensate(p)

SpecRace == Init /\ [][NextRace]_vars

\* ------------------------------------------------- store calls that reject
\* A store call (a promise) may reject.  Inside a try block the handler's
\* catch answers; POST /cars, GET /my-listings and GET /my-bookings have no
\* try block, so the rejection leaves the handler: under Express 4 nothing
\* answers the request, under Express 5 the default error handler answers 500.
TryLabels == {"patch_find", "patch_update", "delcar_find", "delcar_delete",
              "book_find", "book_insert", "book_update", "book_compensate",
              "cancel_find", "cancel_delete", "cancel_update"}

NoTryRoutes == {"POST /cars", "GET /my-listings", "GET /my-bookings"}

Jump(p, label) ==
    /\ pc' = [pc EXCEPT ![p] = label]
    /\ UNCHANGED <<cars, carSeq, bookings, bookingSeq, req, loc, resp, arrivals>>

RejectsInTry(p) ==
    /\ pc[p] \in TryLabels
    /\ Jump(p, "catch")

RejectsOutsideTry(p) ==
    /\ pc[p] = "recv"
    /\ req[p].route \in NoTryRoutes
    /\ verifyToken(req[p].token).next
    /\ Jump(p, "unhandled")

Catch(p) ==
    /\ pc[p] = "catch"
    /\ CASE req[p].route = "PATCH /cars/:id" ->
              Respond(p, 400, "Invalid Car ID format or update error.")
         [] req[p].route = "DELETE /cars/:id" ->
              Respond(p, 400, "Invalid Car ID format.")
         [] req[p].route = "POST /book" ->
              Respond(p, 500, "An unexpected error occurred during booking.")
         [] req[p].route = "DELETE /booking/:id" ->
              Respond(p, 400, "Invalid Booking ID format or server error.")
    /\ StoresUnchanged

Unhandled(p) ==
    /\ pc[p] = "unhandled"
    /\ \/ Jump(p, "hung")
       \/ Respond(p, 500, "Internal Server Error") /\ StoresUnchanged

NextFail ==
    \/ Next
    \/ \E p \in Procs :
         RejectsInTry(p) \/ RejectsOutsideTry(p) \/ Catch(p) \/ Unhandled(p)

SpecFail == Init /\ [][NextFail]_vars

\* ================================================================ claims
\* slot p takes the step (every action changes the pc of the slot it moves)
Steps(p) == pc'[p] # pc[p]

BookingsOf(c) == {b \in DOMAIN bookings : bookings[b].carId = c}

Quiescent == \A p \in Procs : pc[p] \in {"idle", "recv"}

\* C1: whenever no request is partway through its handler, every existing
\* listing is 'Booked' exactly when one booking references it, and 'Available'
\* otherwise.
C1_StatusMatchesBookings ==
    Quiescent =>
      \A c \in DOMAIN cars :
        /\ cars[c].status = "Booked" <=> Cardinality(BookingsOf(c)) = 1
        /\ cars[c].status # "Booked" => cars[c].status = "Available"

\* C2: a booking-create call adds exactly one booking (for the target listing
\* and the caller); when it returns success the listing's status went from
\* 'Available' to 'Booked'; when the status update modifies nothing the
\* inserted booking is deleted again, the listings are untouched and the call
\* ends with 500.
C2_BookingCreateEffect ==
    [][\A p \in Procs :
         /\ (pc[p] = "book_insert" /\ Steps(p)) =>
              /\ loc'[p] \notin DOMAIN bookings
              /\ DOMAIN bookings' = DOMAIN bookings \cup {loc'[p]}
              /\ bookings'[loc'[p]] = [carId |-> req[p].id, userEmail |-> req[p].token]
              /\ cars' = cars
         /\ (pc[p] = "book_update" /\ Steps(p) /\ resp'[p].code = 200) =>
              /\ req[p].id \in DOMAIN cars
              /\ cars[req[p].id].status = "Available"
              /\ cars'[req[p].id].status = "Booked"
              /\ bookings' = bookings
         /\ (pc[p] = "book_update" /\ Steps(p) /\ resp'[p].code # 200) =>
              /\ pc'[p] = "book_compensate"
              /\ cars' = cars
              /\ bookings' = bookings
         /\ (pc[p] = "book_compensate" /\ Steps(p)) =>
              /\ loc[p] \notin DOMAIN bookings'
              /\ DOMAIN bookings' = DOMAIN bookings \ {loc[p]}
              /\ cars' = cars
              /\ pc'[p] = "idle"
              /\ resp'[p].code = 500
      ]_vars

\* a booking of listing c by someone other than `email` whose creating call has
\* returned and which no cancellation has removed
BookedByOther(c, email) ==
    \E b \in BookingsOf(c) :
      /\ bookings[b].userEmail # email
      /\ \A q \in Procs : pc[q] \in {"book_update", "book_compensate"} => loc[q] # b

\* C3: a booking attempt on a listing that is not 'Available', or that the
\* caller owns, or that another caller has booked and not cancelled, fails
\* with 400 and changes neither store.
C3_RejectedBookingChangesNothing ==
    [][\A p \in Procs :
         (/\ pc[p] = "book_find" /\ Steps(p)
          /\ req[p].id \in DOMAIN cars
          /\ \/ cars[req[p].id].status # "Available"
             \/ cars[req[p].id].providerEmail = req[p].token
             \/ BookedByOther(req[p].id, req[p].token))
         => /\ pc'[p] = "idle"
            /\ resp'[p].code = 400
            /\ cars[req[p].id].providerEmail # req[p].token =>
                 resp'[p].msg = "Booking failed: Car is already booked or unavailable."
            /\ cars' = cars
            /\ bookings' = bookings
      ]_vars

CancelOk == "Booking cancelled and car status updated to Available."

\* C4: a cancellation returns success only from its last step; then the
\* booking is gone, the listing it referenced is 'Available' if it still
\* exists, and if it does not the listings are untouched.
C4_CancelEffect ==
    [][\A p \in Procs :
         /\ (pc[p] = "cancel_update" /\ Steps(p)) =>
              /\ resp'[p].code = 200 /\ resp'[p].msg = CancelOk
              /\ req[p].id \notin DOMAIN bookings'
              /\ loc[p] \in DOMAIN cars =>
                   /\ loc[p] \in DOMAIN cars'
                   /\ cars'[loc[p]].status = "Available"
              /\ loc[p] \notin DOMAIN cars => cars' = cars
         /\ (Steps(p) /\ resp'[p].msg = CancelOk) => pc[p] = "cancel_update"
      ]_vars

C4_Witness ==
    \E p \in Procs :
      /\ pc[p] = "idle" /\ resp[p].msg = CancelOk
      /\ bookings = <<>> /\ bookingSeq > 0
      /\ \E c \in DOMAIN cars : cars[c].status = "Available"

NotOwner == "Forbidden: You do not own this listing."

\* C5: an update or delete of an existing listing by a caller who is not its
\* provider is answered 403 and leaves the listings as they are; only the
\* provider's update or delete ever changes a listing.
C5_NonOwnerForbidden ==
    [][\A p \in Procs :
         /\ (/\ pc[p] \in {"patch_find", "delcar_find"} /\ Steps(p)
             /\ req[p].id \in DOMAIN cars
             /\ cars[req[p].id].providerEmail # req[p].token)
            => /\ pc'[p] = "idle"
               /\ resp'[p].code = 403
               /\ cars' = cars /\ bookings' = bookings
         /\ (/\ pc[p] \in {"patch_update", "delcar_delete"} /\ Steps(p)
             /\ cars' # cars)
            => cars[req[p].id].providerEmail = req[p].token
      ]_vars

C5_Witness ==
    \E p \in Procs :
      /\ pc[p] = "idle" /\ resp[p].code = 403 /\ resp[p].msg = NotOwner
      /\ cars # <<>>

\* C6: a request to a session route whose cookie is absent or does not verify
\* is answered 401 without its handler running and without a change to either
\* store; every request inside a handler carries a verified email.
C6_GuardRejects ==
    [][\A p \in Procs :
         /\ (/\ pc[p] = "recv" /\ Steps(p)
             /\ req[p].token \in {NoToken, BadToken})
            => /\ pc'[p] = "idle"
               /\ resp'[p].code = 401
               /\ cars' = cars /\ bookings' = bookings
               /\ carSeq' = carSeq /\ bookingSeq' = bookingSeq
         /\ pc'[p] \notin {"idle", "recv"} => req'[p].token \in Users
      ]_vars

C6_Witness ==
    \E p \in Procs :
      /\ pc[p] = "idle" /\ resp[p].code = 401
      /\ cars # <<>> /\ bookings # <<>>

\* C7: nothing re-checks the listing between the availability check and the
\* insert: a booking request that passed the check inserts its booking
\* whatever the listing's status and bookings are by then, so two requests can
\* both pass the check and both insert.
C7_InsertIsUnconditional ==
    [][\A p \in Procs :
         (pc[p] = "book_insert" /\ Steps(p)) =>
           /\ pc'[p] = "book_update"
           /\ Cardinality({b \in DOMAIN bookings' : bookings'[b].carId = req[p].id})
                = Cardinality(BookingsOf(req[p].id)) + 1
      ]_vars

C7_Witness ==
    \E p, q \in Procs :
      /\ p # q
      /\ pc[p] = "book_update" /\ pc[q] = "book_update"
      /\ req[p].id = req[q].id /\ req[p].token # req[q].token
      /\ req[p].id \in DOMAIN cars /\ cars[req[p].id].status = "Available"
      /\ {loc[p], loc[q]} \subseteq BookingsOf(req[p].id)
      /\ loc[p] # loc[q]

\* C8: a listing's status changes only in the status write of a booking or of
\* a cancellation; in particular an update by the owner leaves it as it is.
C8_StatusOnlyByBookingTransition ==
    [][\A c \in DOMAIN cars \cap DOMAIN cars' :
         cars'[c].status # cars[c].status =>
           \E p \in Procs : Steps(p) /\ pc[p] \in {"book_update", "cancel_update"}
      ]_vars

\* C9: a request whose store call rejected is answered, and with 500.
C9_StoreFailureAnswered500 ==
    [][\A p \in Procs :
         (pc[p] \in {"catch", "unhandled"} /\ Steps(p)) =>
           pc'[p] = "idle" /\ resp'[p].code = 500
      ]_vars

\* C10: with only booking requests at work, two of them never both return
\* success for one listing, and once none is in flight on a listing it is
\* either 'Available' with no booking or 'Booked' with exactly one.
InFlightOn(c) ==
    \E p \in Procs :
      pc[p] \in {"book_insert", "book_update", "book_compensate"} /\ req[p].id = c

Booked(p) == resp[p].code = 200 /\ resp[p].msg = "booked"

C10_RaceHasOneWinner ==
    /\ \A p, q \in Procs :
         (p # q /\ Booked(p) /\ Booked(q)) =>
           bookings[resp[p].bookingId].carId # bookings[resp[q].bookingId].carId
    /\ \A c \in DOMAIN cars :
         ~InFlightOn(c) =>
           \/ cars[c].status = "Available" /\ BookingsOf(c) = {}
           \/ cars[c].status = "Booked" /\ Cardinality(BookingsOf(c)) = 1

C10_Witness ==
    \E p, q \in Procs :
      /\ pc[p] = "idle" /\ pc[q] = "idle"
      /\ Booked(p)
      /\ resp[q].msg = "Booking failed: Could not update car status."
      /\ bookings[resp[p].bookingId].userEmail \in Users
      /\ Cardinality(DOMAIN bookings) = 1
      /\ cars[bookings[resp[p].bookingId].carId].status = "Booked"

====
